---- MODULE Spec2Model ----
(***************************************************************************)
(* Model of lib/tts/generate.py (Nibbler TTS generation script): one run   *)
(* of main(), from argument parsing to process exit.  The three external   *)
(* tools (piper, ForceAlign, ffmpeg) and the file system are the           *)
(* environment: their outcomes are chosen nondeterministically.            *)
(*                                                                         *)
(* Times written by the program are integers in milliseconds.  A raw time  *)
(* returned by the aligner is a whole number of milliseconds plus a        *)
(* sub-millisecond fraction, which round(x, 3) removes.                    *)
(***************************************************************************)
EXTENDS Integers, Sequences, FiniteSets

\* ---------------------------------------------------------------- bounds
MaxTextLen == 2     \* longest input text, in characters
MaxWords == 2       \* longest list of words the aligner returns
MaxRawMs == 0       \* largest whole-millisecond part of a raw aligner time

\* ------------------------------------------------------ program constants
SILENCE_PADDING_START == 150   \* 0.15 s, in ms
SILENCE_PADDING_END == 250     \* 0.25 s, in ms

\* ------------------------------------------------------------ input sets
Chars == {" ", "a"}
Texts == UNION {[1..n -> Chars] : n \in 0..MaxTextLen}
WordSet == {"a", "b"}
Fracs == {"zero", "below_half", "above_half"}
RawTimes == [ms : 0..MaxRawMs, frac : Fracs]
RawWord == [word : WordSet, time_start : RawTimes, time_end : RawTimes]

\* Order of raw times: by milliseconds, then by fraction.
FracRank(f) == IF f = "zero" THEN 0 ELSE IF f = "below_half" THEN 1 ELSE 2
TimeLeq(a, b) ==
    \/ a.ms < b.ms
    \/ (a.ms = b.ms /\ FracRank(a.frac) <= FracRank(b.frac))

\* What the aligner can return: words in temporal order, each starting no
\* later than it ends, starts non-decreasing.  The list may be empty.
WellFormed(ws) ==
    /\ \A i \in 1..Len(ws) : TimeLeq(ws[i].time_start, ws[i].time_end)
    /\ \A i \in 1..(Len(ws) - 1) : TimeLeq(ws[i].time_start, ws[i + 1].time_start)
AlignOutputs ==
    {ws \in UNION {[1..n -> RawWord] : n \in 0..MaxWords} : WellFormed(ws)}

\* Lists of several words are explored for the command line --text a only;
\* every other command line sees the lists of at most one word.
AlignOutputsFor(a) ==
    IF a.text = <<(<<"a">>)>> THEN AlignOutputs
    ELSE {ws \in AlignOutputs : Len(ws) <= 1}

\* An optional value (Python None or a value) is a sequence of length 0 or 1.
None == <<>>
Some(v) == <<v>>

\* The command lines: --text and --input each absent or present, --output
\* absent or present, --json-only set or not.  --input names a file that
\* can be read or one that cannot.
ArgSets ==
    [text : {None} \cup {Some(t) : t \in Texts},
     input : {None, Some("readable"), Some("unreadable")},
     output : {None, Some("out")},
     json_only : BOOLEAN]

VARIABLES
    pc,              \* position of the run in main / process_text
    args,            \* the parsed command line
    inputFile,       \* content of the file --input names, when readable
    text,            \* the local variable text
    tempExists,      \* the temporary raw-audio file exists on disk
    rawWords,        \* what aligner.inference() returned
    timestamps,      \* the list timestamps of process_text
    total_duration,  \* Some(ms) once computed
    wavFile,         \* <output>.wav as left by this run
    jsonFile,        \* <output>.json as left by this run
    jsonDoc,         \* Some(document) once the sidecar is written
    exc,             \* message of the exception in flight or caught
    uncaught,        \* exception that escaped main
    stdout,          \* what was printed on standard output
    stderr,          \* what was printed on standard error
    exitCode,        \* process exit status, -1 while running
    trace            \* history: the external steps in the order they ran

vars == <<pc, args, inputFile, text, tempExists, rawWords, timestamps,
          total_duration, wavFile, jsonFile, jsonDoc, exc, uncaught,
          stdout, stderr, exitCode, trace>>

\* ------------------------------------------------------ pure functions

\* str.strip(): drop leading and trailing whitespace.
RECURSIVE LStrip(_)
LStrip(s) == IF s # <<>> /\ Head(s) = " " THEN LStrip(Tail(s)) ELSE s

RECURSIVE RStrip(_)
RStrip(s) ==
    IF s # <<>> /\ s[Len(s)] = " " THEN RStrip(SubSeq(s, 1, Len(s) - 1)) ELSE s

Strip(s) == RStrip(LStrip(s))

\* round(x, 3) of a raw time in seconds, as integer milliseconds.
Round3(t) == IF t.frac = "above_half" THEN t.ms + 1 ELSE t.ms

\* Python truthiness of an optional string: None and "" are both false.
Truthy(opt) == opt # None /\ Len(opt[1]) > 0

\* --------------------------------------------------------------- Init
Init ==
    /\ pc = "parse_args"
    /\ args \in ArgSets
    /\ inputFile \in (IF args.input = Some("readable") /\ args.text = None
                      THEN Texts ELSE {<<>>})
    /\ text = <<>>
    /\ tempExists = FALSE
    /\ rawWords = <<>>
    /\ timestamps = <<>>
    /\ total_duration = None
    /\ wavFile = "absent"
    /\ jsonFile = "absent"
    /\ jsonDoc = None
    /\ exc = "none"
    /\ uncaught = "none"
    /\ stdout = <<>>
    /\ stderr = <<>>
    /\ exitCode = -1
    /\ trace = <<>>

\* ------------------------------------------------------------ actions

\* parser.parse_args(): the mutually exclusive group is required, and so
\* is --output; argparse reports a usage error on stderr and exits with 2.
UsageError ==
    \/ (args.text # None /\ args.input # None)
    \/ (args.text = None /\ args.input = None)
    \/ args.output = None

ParseArgs ==
    /\ pc = "parse_args"
    /\ IF UsageError
       THEN /\ pc' = "exited"
            /\ stderr' = Append(stderr, "usage")
            /\ exitCode' = 2
       ELSE /\ pc' = "get_text"
            /\ UNCHANGED <<stderr, exitCode>>
    /\ UNCHANGED <<args, inputFile, text, tempExists, rawWords, timestamps,
                   total_duration, wavFile, jsonFile, jsonDoc, exc, uncaught,
                   stdout, trace>>

\* if args.text: text = args.text  else: open(args.input).read()
\* This is outside main's try block: an exception here escapes main, and
\* the interpreter prints a traceback and exits with 1.
GetText ==
    /\ pc = "get_text"
    /\ IF Truthy(args.text)
       THEN /\ text' = args.text[1]
            /\ pc' = "strip"
            /\ UNCHANGED <<uncaught, stderr, exitCode>>
       ELSE IF args.input = None
       THEN /\ uncaught' = "TypeError"
            /\ stderr' = Append(stderr, "traceback")
            /\ exitCode' = 1
            /\ pc' = "exited"
            /\ UNCHANGED text
       ELSE IF args.input = Some("unreadable")
       THEN /\ uncaught' = "OSError"
            /\ stderr' = Append(stderr, "traceback")
            /\ exitCode' = 1
            /\ pc' = "exited"
            /\ UNCHANGED text
       ELSE /\ text' = inputFile
            /\ pc' = "strip"
            /\ UNCHANGED <<uncaught, stderr, exitCode>>
    /\ UNCHANGED <<args, inputFile, tempExists, rawWords, timestamps,
                   total_duration, wavFile, jsonFile, jsonDoc, exc, stdout,
                   trace>>

\* process_text: text = text.strip(); if not text: raise ValueError
StripText ==
    /\ pc = "strip"
    /\ text' = Strip(text)
    /\ IF Strip(text) = <<>>
       THEN /\ exc' = "Empty text provided"
            /\ pc' = "except"
       ELSE /\ pc' = "mktemp"
            /\ UNCHANGED exc
    /\ UNCHANGED <<args, inputFile, tempExists, rawWords, timestamps,
                   total_duration, wavFile, jsonFile, jsonDoc, uncaught,
                   stdout, stderr, exitCode, trace>>

\* An event of the history: an external step and whether it returned
\* without error.
Event(step, ok) == [step |-> step, ok |-> ok]

\* Variant of MakeTemp: delete=False left out, so closing the file at the
\* end of the with block deletes it.
MakeTemp_DeleteOnClose ==
    /\ pc = "mktemp"
    /\ \E created \in BOOLEAN :
         IF created
         THEN /\ tempExists' = FALSE
              /\ trace' = trace \o <<Event("mktemp", TRUE), Event("unlink", TRUE)>>
              /\ pc' = "piper"
              /\ UNCHANGED exc
         ELSE /\ exc' = "cannot create temporary file"
              /\ pc' = "except"
              /\ UNCHANGED <<tempExists, trace>>
    /\ UNCHANGED <<args, inputFile, text, rawWords, timestamps,
                   total_duration, wavFile, jsonFile, jsonDoc, uncaught,
                   stdout, stderr, exitCode>>

\* with tempfile.NamedTemporaryFile(suffix=".wav", delete=False): the file
\* is created and closed, and stays on disk.  Creating it can fail; that
\* happens inside main's try block.
MakeTemp ==
    /\ pc = "mktemp"
    /\ \E created \in BOOLEAN :
         IF created
         THEN /\ tempExists' = TRUE
              /\ trace' = Append(trace, Event("mktemp", TRUE))
              /\ pc' = "piper"
              /\ UNCHANGED exc
         ELSE /\ exc' = "cannot create temporary file"
              /\ pc' = "except"
              /\ UNCHANGED <<tempExists, trace>>
    /\ UNCHANGED <<args, inputFile, text, rawWords, timestamps,
                   total_duration, wavFile, jsonFile, jsonDoc, uncaught,
                   stdout, stderr, exitCode>>

\* Variant of RunPiper: the return code is not checked.
RunPiper_NoReturnCodeCheck ==
    /\ pc = "piper"
    /\ \E returncode \in {0, 1} :
         /\ trace' = Append(trace, Event("piper", returncode = 0))
         /\ pc' = "align"
    /\ UNCHANGED <<args, inputFile, text, tempExists, rawWords, timestamps,
                   total_duration, wavFile, jsonFile, jsonDoc, exc, uncaught,
                   stdout, stderr, exitCode>>

\* subprocess.run(piper_cmd, ...); a non-zero return code raises
\* RuntimeError inside the try block, whose finally clause runs next.
RunPiper ==
    /\ pc = "piper"
    /\ \E returncode \in {0, 1} :
         /\ trace' = Append(trace, Event("piper", returncode = 0))
         /\ IF returncode # 0
            THEN /\ exc' = "Piper TTS failed"
                 /\ pc' = "finally"
            ELSE /\ pc' = "align"
                 /\ UNCHANGED exc
    /\ UNCHANGED <<args, inputFile, text, tempExists, rawWords, timestamps,
                   total_duration, wavFile, jsonFile, jsonDoc, uncaught,
                   stdout, stderr, exitCode>>

\* extract_timestamps: aligner.inference() raises or returns words; each
\* word becomes {"word", "start": round(time_start, 3), "end": round(...)}.
RoundedWord(w) ==
    [word |-> w.word, start |-> Round3(w.time_start), end |-> Round3(w.time_end)]

ExtractTimestamps ==
    /\ pc = "align"
    /\ \/ /\ trace' = Append(trace, Event("align", FALSE))
          /\ exc' = "alignment failed"
          /\ pc' = "finally"
          /\ UNCHANGED <<rawWords, timestamps>>
       \/ \E words \in AlignOutputsFor(args) :
            /\ trace' = Append(trace, Event("align", TRUE))
            /\ rawWords' = words
            /\ timestamps' = [i \in 1..Len(words) |-> RoundedWord(words[i])]
            /\ pc' = "adjust"
            /\ UNCHANGED exc
    /\ UNCHANGED <<args, inputFile, text, tempExists, total_duration,
                   wavFile, jsonFile, jsonDoc, uncaught, stdout, stderr,
                   exitCode>>

\* Variant of AdjustedWord: the end is shifted by the end padding.
AdjustedWord_EndPad(ts) ==
    [word |-> ts.word,
     start |-> ts.start + SILENCE_PADDING_START,
     end |-> ts.end + SILENCE_PADDING_END]

\* for ts in timestamps: ts["start"] = round(ts["start"] + 0.15, 3), and
\* the same for ts["end"].  Both operands are whole milliseconds, so the
\* rounded sum is their integer sum.
AdjustedWord(ts) ==
    [word |-> ts.word,
     start |-> ts.start + SILENCE_PADDING_START,
     end |-> ts.end + SILENCE_PADDING_START]

AdjustTimestamps ==
    /\ pc = "adjust"
    /\ timestamps' = [i \in 1..Len(timestamps) |-> AdjustedWord(timestamps[i])]
    /\ pc' = "pad"
    /\ UNCHANGED <<args, inputFile, text, tempExists, rawWords,
                   total_duration, wavFile, jsonFile, jsonDoc, exc, uncaught,
                   stdout, stderr, exitCode, trace>>

\* Variant of AddSilencePadding: the return code is not checked.
AddSilencePadding_NoReturnCodeCheck ==
    /\ pc = "pad"
    /\ \E returncode \in {0, 1} :
         /\ trace' = Append(trace, Event("ffmpeg", returncode = 0))
         /\ wavFile' \in (IF returncode # 0 THEN {"absent", "partial"} ELSE {"final"})
         /\ pc' = "duration"
    /\ UNCHANGED <<args, inputFile, text, tempExists, rawWords, timestamps,
                   total_duration, jsonFile, jsonDoc, exc, uncaught, stdout,
                   stderr, exitCode>>

\* add_silence_padding: ffmpeg writes <output>.wav; a non-zero return code
\* raises RuntimeError.  What a failed ffmpeg leaves at the output path is
\* not decided by this program: nothing, or an unfinished file.
AddSilencePadding ==
    /\ pc = "pad"
    /\ \E returncode \in {0, 1} :
         /\ trace' = Append(trace, Event("ffmpeg", returncode = 0))
         /\ IF returncode # 0
            THEN /\ wavFile' \in {"absent", "partial"}
                 /\ exc' = "FFmpeg padding failed"
                 /\ pc' = "finally"
            ELSE /\ wavFile' = "final"
                 /\ pc' = "duration"
                 /\ UNCHANGED exc
    /\ UNCHANGED <<args, inputFile, text, tempExists, rawWords, timestamps,
                   total_duration, jsonFile, jsonDoc, uncaught, stdout,
                   stderr, exitCode>>

\* total_duration = timestamps[-1]["end"] + SILENCE_PADDING_END
\*                  if timestamps else 0
ComputeDuration ==
    /\ pc = "duration"
    /\ total_duration' =
         IF timestamps # <<>>
         THEN Some(timestamps[Len(timestamps)].end + SILENCE_PADDING_END)
         ELSE Some(0)
    /\ pc' = "finally"
    /\ UNCHANGED <<args, inputFile, text, tempExists, rawWords, timestamps,
                   wavFile, jsonFile, jsonDoc, exc, uncaught, stdout, stderr,
                   exitCode, trace>>

\* Variant of Finally: the cleanup follows the try block instead of being
\* its finally clause, so an exception skips it.
Finally_OnlyOnSuccess ==
    /\ pc = "finally"
    /\ IF tempExists /\ exc = "none"
       THEN /\ tempExists' = FALSE
            /\ trace' = Append(trace, Event("unlink", TRUE))
       ELSE UNCHANGED <<tempExists, trace>>
    /\ pc' = IF exc # "none" THEN "except" ELSE "write_json"
    /\ UNCHANGED <<args, inputFile, text, rawWords, timestamps,
                   total_duration, wavFile, jsonFile, jsonDoc, exc, uncaught,
                   stdout, stderr, exitCode>>

\* finally: if raw_audio_path.exists(): raw_audio_path.unlink()
\* Then the exception in flight, if any, propagates to main's handler.
Finally ==
    /\ pc = "finally"
    /\ IF tempExists
       THEN /\ tempExists' = FALSE
            /\ trace' = Append(trace, Event("unlink", TRUE))
       ELSE UNCHANGED <<tempExists, trace>>
    /\ pc' = IF exc # "none" THEN "except" ELSE "write_json"
    /\ UNCHANGED <<args, inputFile, text, rawWords, timestamps,
                   total_duration, wavFile, jsonFile, jsonDoc, exc, uncaught,
                   stdout, stderr, exitCode>>

\* Variant of WriteJson: a failed write is swallowed.
WriteJson_SwallowsError ==
    /\ pc = "write_json"
    /\ \E outcome \in {"ok", "open_fails", "dump_fails"} :
         IF outcome = "ok"
         THEN /\ jsonFile' = "written"
              /\ jsonDoc' = Some([text |-> text, timestamps |-> timestamps,
                                  duration |-> total_duration[1]])
              /\ trace' = Append(trace, Event("json", TRUE))
         ELSE /\ jsonFile' = IF outcome = "dump_fails" THEN "partial" ELSE "absent"
              /\ UNCHANGED <<jsonDoc, trace>>
    /\ pc' = "report"
    /\ UNCHANGED <<args, inputFile, text, tempExists, rawWords, timestamps,
                   total_duration, wavFile, exc, uncaught, stdout, stderr,
                   exitCode>>

\* with open(json_path, "w") as f: json.dump({...}, f, indent=2)
\* open() can fail, leaving no file; json.dump can fail after open()
\* created the file, leaving an unfinished one.
WriteJson ==
    /\ pc = "write_json"
    /\ \E outcome \in {"ok", "open_fails", "dump_fails"} :
         IF outcome = "ok"
         THEN /\ jsonFile' = "written"
              /\ jsonDoc' = Some([text |-> text, timestamps |-> timestamps,
                                  duration |-> total_duration[1]])
              /\ trace' = Append(trace, Event("json", TRUE))
              /\ pc' = "report"
              /\ UNCHANGED exc
         ELSE /\ jsonFile' = IF outcome = "dump_fails" THEN "partial" ELSE "absent"
              /\ exc' = "cannot write JSON"
              /\ pc' = "except"
              /\ UNCHANGED <<jsonDoc, trace>>
    /\ UNCHANGED <<args, inputFile, text, tempExists, rawWords, timestamps,
                   total_duration, wavFile, uncaught, stdout, stderr,
                   exitCode>>

\* main, after process_text returned: print the result.  In default mode
\* the third line reads result['timestamps'][-1], which raises IndexError
\* on an empty list, after the first two lines were printed.
Report ==
    /\ pc = "report"
    /\ IF args.json_only
       THEN /\ stdout' = Append(stdout, "result_json")
            /\ exitCode' = 0
            /\ pc' = "exited"
            /\ UNCHANGED exc
       ELSE IF timestamps = <<>>
       THEN /\ stdout' = stdout \o <<"Audio", "Timestamps">>
            /\ exc' = "list index out of range"
            /\ pc' = "except"
            /\ UNCHANGED exitCode
       ELSE /\ stdout' = stdout \o <<"Audio", "Timestamps", "Duration", "Words">>
            /\ exitCode' = 0
            /\ pc' = "exited"
            /\ UNCHANGED exc
    /\ UNCHANGED <<args, inputFile, text, tempExists, rawWords, timestamps,
                   total_duration, wavFile, jsonFile, jsonDoc, uncaught,
                   stderr, trace>>

\* Variant of HandleException: sys.exit(1) is missing from the
\* --json-only branch, so the process ends with status 0 there.
HandleException_NoExitInJsonMode ==
    /\ pc = "except"
    /\ IF args.json_only
       THEN /\ stdout' = Append(stdout, "error_json")
            /\ exitCode' = 0
            /\ UNCHANGED stderr
       ELSE /\ stderr' = Append(stderr, "Error")
            /\ exitCode' = 1
            /\ UNCHANGED stdout
    /\ pc' = "exited"
    /\ UNCHANGED <<args, inputFile, text, tempExists, rawWords, timestamps,
                   total_duration, wavFile, jsonFile, jsonDoc, exc, uncaught,
                   trace>>

\* except Exception as e: print the error (JSON object on stdout in
\* --json-only mode, message on stderr otherwise) and sys.exit(1).
HandleException ==
    /\ pc = "except"
    /\ IF args.json_only
       THEN /\ stdout' = Append(stdout, "error_json")
            /\ UNCHANGED stderr
       ELSE /\ stderr' = Append(stderr, "Error")
            /\ UNCHANGED stdout
    /\ exitCode' = 1
    /\ pc' = "exited"
    /\ UNCHANGED <<args, inputFile, text, tempExists, rawWords, timestamps,
                   total_duration, wavFile, jsonFile, jsonDoc, exc, uncaught,
                   trace>>

Next ==
    \/ ParseArgs
    \/ GetText
    \/ StripText
    \/ MakeTemp
    \/ RunPiper
    \/ ExtractTimestamps
    \/ AdjustTimestamps
    \/ AddSilencePadding
    \/ ComputeDuration
    \/ Finally
    \/ WriteJson
    \/ Report
    \/ HandleException

Spec == Init /\ [][Next]_vars

\* ------------------------------------------------- vocabulary of the claims
Exited == pc = "exited"

\* Positions of a step in the history.
Positions(step) == {i \in 1..Len(trace) : trace[i].step = step}
Invoked(step) == Positions(step) # {}
Returned(step) == \E i \in Positions(step) : trace[i].ok
Failed(step) == \E i \in Positions(step) : ~trace[i].ok

IsTool(e) == e.step \in {"piper", "align", "ffmpeg"}
ToolSteps == [i \in 1..Len(SelectSeq(trace, IsTool)) |-> SelectSeq(trace, IsTool)[i].step]
IsPrefix(a, b) == Len(a) <= Len(b) /\ \A i \in 1..Len(a) : a[i] = b[i]

\* No exception was raised anywhere in the run.
NoError == ~UsageError /\ exc = "none" /\ uncaught = "none"

\* The text the command line supplies is empty or only whitespace.
SuppliedBlank ==
    \/ (args.text # None /\ Strip(args.text[1]) = <<>>)
    \/ (args.text = None /\ args.input = Some("readable") /\ Strip(inputFile) = <<>>)

\* main's handler caught the exception and reported it.
ReportedByHandler ==
    IF args.json_only THEN stdout = <<"error_json">> ELSE stderr = <<"Error">>

\* ------------------------------------------------------------------ C1
\* C1: once the process has exited, on the success path and on every
\* failure path, the temporary raw-audio file does not exist.
C1_TempFileGoneAtExit == Exited => ~tempExists

\* A run that created the temp file, failed in padding and has exited.
C1_Witness == Exited /\ Invoked("mktemp") /\ Failed("ffmpeg") /\ ~tempExists

\* ------------------------------------------------------------------ C2
\* C2: if synthesis exits non-zero, alignment raises or padding exits
\* non-zero, the run performs no JSON write, produces no finished WAV,
\* invokes no step after the failing one except the cleanup, and exits
\* with code 1.
C2_NoOutputsAfterToolFailure ==
    (Failed("piper") \/ Failed("align") \/ Failed("ffmpeg")) =>
        /\ jsonFile = "absent"
        /\ jsonDoc = None
        /\ ~Invoked("json")
        /\ wavFile # "final"
        /\ \A i \in 1..Len(trace) : \A j \in 1..Len(trace) :
             (IsTool(trace[i]) /\ ~trace[i].ok /\ j > i) => trace[j].step = "unlink"
        /\ Exited => (exitCode = 1 /\ ReportedByHandler)

\* A run whose synthesis failed, and which has exited.
C2_Witness == Exited /\ Failed("piper") /\ exitCode = 1

\* ------------------------------------------------------------------ C3
\* C3: in --json-only mode every run that terminates prints exactly one
\* JSON object on stdout, the result object when the run succeeded and the
\* error object when any step failed (reading the --input file included),
\* and the exit code is non-zero exactly when the error object was
\* printed.  Stated for the command lines argparse accepts.
C3_JsonOnlyPrintsOneObject ==
    (Exited /\ args.json_only /\ ~UsageError) =>
        /\ Len(stdout) = 1
        /\ stdout[1] = (IF NoError THEN "result_json" ELSE "error_json")
        /\ (exitCode # 0) <=> (stdout = <<"error_json">>)

\* ------------------------------------------------------------------ C4
\* C4: every empty or whitespace-only text, given by --text (--text ""
\* included) or read from the --input file, fails with "Empty text
\* provided", reported by main's handler, before the temp file is created
\* and before any external tool is invoked.
C4_BlankTextFailsWithEmptyError ==
    (Exited /\ ~UsageError /\ SuppliedBlank) =>
        /\ exc = "Empty text provided"
        /\ uncaught = "none"
        /\ ReportedByHandler
        /\ trace = <<>>
        /\ ~tempExists

\* ------------------------------------------------------------------ C5
\* C5 as stated: the exit code is 0 when the run succeeds and exactly 1 on
\* any failure, usage errors included.
C5_ExitCodeZeroOrOne ==
    Exited => exitCode = (IF NoError THEN 0 ELSE 1)

\* C5 as amended: the exit code is 0 when no error was raised, 2 on a usage
\* error (argparse rejects the command line), and exactly 1 on every other
\* failure.
C5_ExitCodeByKind ==
    Exited => exitCode = (IF UsageError THEN 2 ELSE IF NoError THEN 0 ELSE 1)

\* A run that failed after argument parsing, in --json-only mode.
C5_Witness == Exited /\ ~UsageError /\ exc # "none" /\ args.json_only /\ exitCode = 1

\* ------------------------------------------------------------------ C6
\* C6: the written timestamps have the length, the words and the order of
\* the aligner's output; every start and end is the aligner's (rounded) raw
\* time plus 150 ms, which for a raw time of whole milliseconds is the raw
\* time plus 150 ms; the written duration is the last entry's adjusted end
\* plus 250 ms.
C6_TimestampsShifted ==
    jsonDoc # None =>
        LET doc == jsonDoc[1]
            n == Len(rawWords)
        IN /\ Len(doc.timestamps) = n
           /\ \A i \in 1..n :
                /\ doc.timestamps[i].word = rawWords[i].word
                /\ doc.timestamps[i].start = Round3(rawWords[i].time_start) + 150
                /\ doc.timestamps[i].end = Round3(rawWords[i].time_end) + 150
                /\ rawWords[i].time_start.frac = "zero" =>
                     doc.timestamps[i].start = rawWords[i].time_start.ms + 150
                /\ rawWords[i].time_end.frac = "zero" =>
                     doc.timestamps[i].end = rawWords[i].time_end.ms + 150
           /\ n > 0 => doc.duration = doc.timestamps[n].end + 250

\* A successful run over two different words at whole-millisecond times,
\* the second ending one millisecond (rounded) after it starts.
C6_Witness ==
    /\ Exited /\ exitCode = 0 /\ jsonDoc # None
    /\ Len(rawWords) = 2
    /\ rawWords[1].word # rawWords[2].word
    /\ rawWords[1].time_start.frac = "zero"
    /\ rawWords[1].time_end.frac = "zero"
    /\ Round3(rawWords[2].time_end) # Round3(rawWords[2].time_start)

\* ------------------------------------------------------------------ C7
\* C7: the external steps run in the order synthesis, alignment, padding,
\* each at most once; alignment only after synthesis returned 0, padding
\* only after alignment returned, the JSON write only after padding
\* returned 0.
C7_StepsInOrder ==
    /\ IsPrefix(ToolSteps, <<"piper", "align", "ffmpeg">>)
    /\ Invoked("align") => Returned("piper")
    /\ Invoked("ffmpeg") => Returned("align")
    /\ Invoked("json") => Returned("ffmpeg")
    /\ \A i \in Positions("json") : \A j \in 1..Len(trace) : IsTool(trace[j]) => j < i

\* A run that went through all three tools and wrote the sidecar.
C7_Witness == ToolSteps = <<"piper", "align", "ffmpeg">> /\ Invoked("json")

\* ------------------------------------------------------------------ C8
\* C8: the temp file is created before synthesis is invoked, exists while
\* synthesis, alignment and padding run, is deleted exactly once after
\* them on the success and on the failure path, and its deletion precedes
\* the JSON write.
C8_TempFileLifecycle ==
    /\ \A i \in Positions("piper") : \E j \in Positions("mktemp") : j < i
    /\ pc \in {"piper", "align", "adjust", "pad", "duration"} =>
         (tempExists /\ ~Invoked("unlink"))
    /\ Cardinality(Positions("unlink")) <= 1
    /\ \A i \in Positions("unlink") : \A j \in 1..Len(trace) :
         (IsTool(trace[j]) \/ trace[j].step = "mktemp") => j < i
    /\ \A i \in Positions("json") : \E j \in Positions("unlink") : j < i
    /\ (Exited /\ Invoked("mktemp")) => Cardinality(Positions("unlink")) = 1

\* A run whose alignment raised: the file was deleted once, afterwards.
C8_Witness ==
    Exited /\ Failed("align") /\ Cardinality(Positions("unlink")) = 1

\* ------------------------------------------------------------------ C9
\* C9: every run that exits with code 0 had a text that is non-empty after
\* stripping and has produced both <output>.wav, by the padding step, and
\* <output>.json, by the JSON write.
C9_SuccessWroteBothFiles ==
    (Exited /\ exitCode = 0) =>
        /\ wavFile = "final"
        /\ Returned("ffmpeg")
        /\ jsonFile = "written"
        /\ jsonDoc # None
        /\ text # <<>>
        /\ ~SuppliedBlank

\* A run that exited with code 0 in default mode.
C9_Witness ==
    Exited /\ exitCode = 0 /\ ~args.json_only /\ wavFile = "final" /\ jsonFile = "written"

\* ----------------------------------------------------------------- C10
\* C10: no run that has written the JSON sidecar terminates with a
\* non-zero exit code or an error message, in either mode and for every
\* alignment result, the empty list of words included.
C10_SidecarWrittenMeansSuccess ==
    (Exited /\ jsonFile = "written") =>
        /\ exitCode = 0
        /\ exc = "none"
        /\ stderr = <<>>
====
